---------------------------- MODULE Spec2Model ----------------------------
(***************************************************************************)
(* A model of the melody generator: src/app.py (the autoregressive         *)
(* generator, the notation renderer and the two web routes) and            *)
(* src/preprocessing.py (the time-series encoder and the vocabulary map).  *)
(*                                                                         *)
(* Python strings are sequences of one-character strings, so that          *)
(* str(), int(), " ".join() and str.split() are computed, not assumed.     *)
(* Durations are counted in eighths of a quarter note: the default         *)
(* time step 0.25 is 2 units, and every duration of the model is a dyadic  *)
(* rational that Python's float division handles exactly.                  *)
(***************************************************************************)
EXTENDS Integers, Sequences, FiniteSets, TLC

VARIABLES
    \* ---- src/app.py: one predict request followed by a download ----
    pc,                  \* position of the request in predict / download_file
    mappings,            \* self._mappings, loaded from Mapping.json
    files,               \* the files the two routes write and read, by path
    form,                \* request.form["melody"], a string
    num_steps,           \* generate_melody's step budget
    max_sequence_length, \* generate_melody's context limit
    seed,                \* the local `seed` once mapped to ids (line 45)
    melody,              \* the local `melody`
    step,                \* iterations of the for loop begun so far
    onehot_seed,         \* the input of the latest model.predict call
    sampled,             \* every output_int drawn so far, oldest first
    rendered,            \* what save_melody did: its stream, or a raised error
    downloaded,          \* what download_file sent
    \* ---- src/preprocessing.py: encode_song and its rendering ----
    epc, song, time_step, encoded, decoded,
    \* ---- src/preprocessing.py: create_mapping / convert_songs_to_int ----
    songs,               \* the merged corpus string
    mapping_file,        \* the content of Mapping.json
    mapped_from,         \* the corpus Mapping.json was built from
    int_songs            \* the last result of convert_songs_to_int

appVars == <<pc, mappings, files, form, num_steps, max_sequence_length, seed,
             melody, step, onehot_seed, sampled, rendered, downloaded>>
encVars == <<epc, song, time_step, encoded, decoded>>
mapVars == <<songs, mapping_file, mapped_from, int_songs>>
vars == <<appVars, encVars, mapVars>>

----------------------------------------------------------------------------
(* Bounds of the model *)

\* SEQUENCE_LENGTH is 64 in src/preprocessing.py:22; the model scales it down.
SEQUENCE_LENGTH == 2
\* the longest seed, in tokens
MaxSeedLen == 2
\* the largest step budget (predict passes 500)
MaxSteps == 2
\* the longest score, in note/rest events
MaxEvents == 2
\* the longest duration of an event, in eighths of a quarter note
MaxDur == 5
\* the longest merged corpus string, in characters
MaxCorpusLen == 5

----------------------------------------------------------------------------
(* Python's str, int, join and split *)

Digits == <<"0", "1", "2", "3", "4", "5", "6", "7", "8", "9">>

IsDigit(c) == \E d \in 1..10 : Digits[d] = c

DigitVal(c) == (CHOOSE d \in 1..10 : Digits[d] = c) - 1

RECURSIVE Str(_)
\* str(n) for an int n >= 0
Str(n) == IF n < 10 THEN <<Digits[n + 1]>>
          ELSE Str(n \div 10) \o <<Digits[(n % 10) + 1]>>

ValueError == -1

RECURSIVE DigitsValue(_, _)
DigitsValue(s, acc) ==
    IF s = <<>> THEN acc
    ELSE IF s[1] = "_" THEN DigitsValue(Tail(s), acc)
    ELSE DigitsValue(Tail(s), 10 * acc + DigitVal(s[1]))

\* int(s) for a string s without whitespace or sign: digits, single
\* underscores allowed between them; anything else raises ValueError.
IntOf(s) ==
    IF /\ s # <<>>
       /\ IsDigit(s[1]) /\ IsDigit(s[Len(s)])
       /\ \A i \in 1..Len(s) : IsDigit(s[i]) \/ s[i] = "_"
       /\ \A i \in 1..(Len(s) - 1) : ~(s[i] = "_" /\ s[i + 1] = "_")
    THEN DigitsValue(s, 0)
    ELSE ValueError

RECURSIVE Join(_)
\* " ".join(tokens)
Join(tokens) ==
    IF tokens = <<>> THEN <<>>
    ELSE IF Len(tokens) = 1 THEN tokens[1]
    ELSE tokens[1] \o <<" ">> \o Join(Tail(tokens))

RECURSIVE SplitFrom(_, _, _)
SplitFrom(s, word, acc) ==
    IF s = <<>> THEN (IF word = <<>> THEN acc ELSE Append(acc, word))
    ELSE IF s[1] = " "
         THEN SplitFrom(Tail(s), <<>>, IF word = <<>> THEN acc ELSE Append(acc, word))
         ELSE SplitFrom(Tail(s), Append(word, s[1]), acc)

\* s.split(): the maximal runs of non-whitespace characters, in order
Split(s) == SplitFrom(s, <<>>, <<>>)

Range(s) == {s[i] : i \in 1..Len(s)}

SeqsUpTo(S, n) == UNION {[1..k -> S] : k \in 0..n}

----------------------------------------------------------------------------
(* Tokens and music21 events *)

RestTok == <<"r">>
HoldTok == <<"_">>
BoundaryTok == <<"/">>

\* the MIDI pitches of the model's scores
Pitches == {60}

\* the vocabulary of the encoded, merged corpus
Vocab == {Str(p) : p \in Pitches} \cup {RestTok, HoldTok, BoundaryTok}

\* m21.note.Note(pitch, quarterLength=q) and m21.note.Rest(quarterLength=q)
Note(p, q) == [kind |-> "note", pitch |-> p, quarterLength |-> q]
Rest(q) == [kind |-> "rest", pitch |-> 0, quarterLength |-> q]


----------------------------------------------------------------------------
(* src/app.py: MelodyGenerator *)

\* the default step_duration of save_melody, 0.25, in eighths of a quarter
STEP_DURATION == 2

\* where save_melody writes by default, and what download_file sends
SAVE_PATH == "melody.mid"
DOWNLOAD_PATH == "GeneratedMusic/melody.mid"
Paths == {SAVE_PATH, DOWNLOAD_PATH}

NoFile == [exists |-> FALSE, events |-> <<>>]
MidiFile(stream) == [exists |-> TRUE, events |-> stream]

\* self._start_symbols = ["/"] * SEQUENCE_LENGTH
start_symbols == [i \in 1..SEQUENCE_LENGTH |-> BoundaryTok]

\* Mapping.json as create_mapping leaves it for a corpus whose vocabulary is
\* Vocab: one id per token, 0 .. size-1, in the arbitrary order of a set.
VocabMappings ==
    {m \in [Vocab -> 0..(Cardinality(Vocab) - 1)] :
        \A a, b \in Vocab : a # b => m[a] # m[b]}

\* a slip that keeps the head of the list: seed[:max_sequence_length]
TruncateHead(s, m) ==
    IF m >= Len(s) THEN s ELSE SubSeq(s, 1, m)

\* seed[-max_sequence_length:], Python's slice with a start of -m, m >= 0:
\* -0 is 0, so m = 0 keeps the whole list
Truncate(s, m) ==
    IF m = 0 \/ m >= Len(s) THEN s
    ELSE SubSeq(s, Len(s) - m + 1, Len(s))

\* keras.utils.to_categorical(ids, num_classes)
OneHot(ids, num_classes) ==
    [i \in 1..Len(ids) |->
        [c \in 0..(num_classes - 1) |-> IF c = ids[i] THEN 1 ELSE 0]]

\* [k for k, v in self._mappings.items() if v == output_int][0]
Decode(m, output_int) == CHOOSE k \in DOMAIN m : m[k] = output_int

\* a slip that runs the loop once more: range(num_steps + 1)
LoopContinuesOnceMore(i, n) == i <= n

\* for _ in range(num_steps): another iteration after i of them
LoopContinues(i, n) == i < n

\* a slip that never breaks out of the loop
IsBoundaryNever(output_symbol) == FALSE

\* if output_symbol == "/": break
IsBoundary(output_symbol) == output_symbol = BoundaryTok

None == <<>>

RECURSIVE SaveLoop(_, _, _, _, _, _)
\* the for loop of save_melody from (1-based) index i on; the result is the
\* stream built and whether int(start_symbol) raised ValueError
SaveLoop(mel, step_duration, i, start_symbol, step_counter, stream) ==
    IF i > Len(mel) THEN [stream |-> stream, raised |-> FALSE]
    ELSE LET symbol == mel[i] IN
      IF symbol # HoldTok \/ i = Len(mel)
      THEN IF start_symbol # None
           THEN LET q == step_duration * step_counter IN
                IF start_symbol = RestTok
                THEN SaveLoop(mel, step_duration, i + 1, symbol, 1,
                              Append(stream, Rest(q)))
                ELSE IF IntOf(start_symbol) = ValueError
                THEN [stream |-> stream, raised |-> TRUE]
                ELSE SaveLoop(mel, step_duration, i + 1, symbol, 1,
                              Append(stream, Note(IntOf(start_symbol), q)))
           ELSE SaveLoop(mel, step_duration, i + 1, symbol, step_counter, stream)
      ELSE SaveLoop(mel, step_duration, i + 1, start_symbol, step_counter + 1,
                    stream)

\* save_melody(melody, step_duration) up to the stream.write call
save_melody(mel, step_duration) ==
    SaveLoop(mel, step_duration, 1, None, 1, <<>>)

NotRendered == [stream |-> <<>>, raised |-> FALSE]

\* the seeds a form can carry: every token of the vocabulary and one token
\* that is not in it
UnknownTok == <<"6">>
SeedTokens == Vocab \cup {UnknownTok}
Forms == {Join(ts) : ts \in SeqsUpTo(SeedTokens, MaxSeedLen)}

\* GeneratedMusic/melody.mid as deployed: missing, or some earlier rendering
DeployedFiles == {NoFile, MidiFile(<<Note(60, STEP_DURATION)>>)}

AppIdle ==
    /\ pc = "off" /\ mappings = <<>> /\ files = <<>> /\ form = <<>>
    /\ num_steps = 0 /\ max_sequence_length = 0 /\ seed = <<>>
    /\ melody = <<>> /\ step = 0 /\ onehot_seed = <<>> /\ sampled = <<>>
    /\ rendered = NotRendered /\ downloaded = NoFile

AppInit ==
    /\ pc = "predict"
    /\ mappings \in VocabMappings
    /\ \E d \in DeployedFiles :
          files = [p \in Paths |-> IF p = DOWNLOAD_PATH THEN d ELSE NoFile]
    /\ form \in Forms
    /\ num_steps \in 0..MaxSteps
    /\ max_sequence_length \in 0..(SEQUENCE_LENGTH + 1)
    /\ seed = <<>> /\ melody = <<>> /\ step = 0
    /\ onehot_seed = <<>> /\ sampled = <<>>
    /\ rendered = NotRendered /\ downloaded = NoFile

\* predict, lines 121-123, into generate_melody, lines 40-45
GenerateMelodyBegin ==
    /\ pc = "predict"
    /\ LET tokens == Split(form)
           withStart == start_symbols \o tokens
       IN /\ melody' = tokens
          /\ IF \A i \in 1..Len(withStart) : withStart[i] \in DOMAIN mappings
             THEN /\ seed' = [i \in 1..Len(withStart) |-> mappings[withStart[i]]]
                  /\ pc' = "loop"
             ELSE /\ seed' = seed
                  /\ pc' = "KeyError"
    /\ UNCHANGED <<mappings, files, form, num_steps, max_sequence_length, step,
                   onehot_seed, sampled, rendered, downloaded>>
    /\ UNCHANGED <<encVars, mapVars>>

\* one iteration of the loop, lines 47-72; output_int is the index that
\* _sample_with_temperature draws from range(len(probabilities)), the
\* model having one output per vocabulary entry
LoopStep ==
    /\ pc = "loop"
    /\ LoopContinues(step, num_steps)
    /\ \E output_int \in 0..(Cardinality(DOMAIN mappings) - 1) :
         LET truncated == Truncate(seed, max_sequence_length)
             output_symbol == Decode(mappings, output_int)
         IN /\ onehot_seed' = OneHot(truncated, Cardinality(DOMAIN mappings))
            /\ seed' = Append(truncated, output_int)
            /\ sampled' = Append(sampled, output_int)
            /\ step' = step + 1
            /\ IF IsBoundary(output_symbol)
               THEN /\ pc' = "return"
                    /\ melody' = melody
               ELSE /\ pc' = "loop"
                    /\ melody' = Append(melody, output_symbol)
    /\ UNCHANGED <<mappings, files, form, num_steps, max_sequence_length,
                   rendered, downloaded>>
    /\ UNCHANGED <<encVars, mapVars>>

\* the loop runs out of steps, line 47, and generate_melody returns, line 74
LoopExit ==
    /\ pc = "loop"
    /\ ~LoopContinues(step, num_steps)
    /\ pc' = "return"
    /\ UNCHANGED <<mappings, files, form, num_steps, max_sequence_length, seed,
                   melody, step, onehot_seed, sampled, rendered, downloaded>>
    /\ UNCHANGED <<encVars, mapVars>>

\* predict, lines 125-129: save_melody(melody) and the rendered response
PredictSave ==
    /\ pc = "return"
    /\ LET r == save_melody(melody, STEP_DURATION)
       IN /\ rendered' = r
          /\ IF r.raised
             THEN /\ pc' = "ValueError"
                  /\ files' = files
             ELSE /\ pc' = "responded"
                  /\ files' = [files EXCEPT ![SAVE_PATH] = MidiFile(r.stream)]
    /\ UNCHANGED <<mappings, form, num_steps, max_sequence_length, seed,
                   melody, step, onehot_seed, sampled, downloaded>>
    /\ UNCHANGED <<encVars, mapVars>>

\* download_file, lines 131-134, as the request after the submission
download_file ==
    /\ pc = "responded"
    /\ downloaded' = files[DOWNLOAD_PATH]
    /\ pc' = "downloaded"
    /\ UNCHANGED <<mappings, files, form, num_steps, max_sequence_length, seed,
                   melody, step, onehot_seed, sampled, rendered>>
    /\ UNCHANGED <<encVars, mapVars>>

EncIdle ==
    /\ epc = "off" /\ song = <<>> /\ time_step = 0 /\ encoded = <<>>
    /\ decoded = NotRendered

MapIdle ==
    /\ songs = <<>> /\ mapping_file = <<>> /\ mapped_from = <<>>
    /\ int_songs = <<>>

Init == AppInit /\ EncIdle /\ MapIdle

Next ==
    \/ GenerateMelodyBegin
    \/ LoopStep
    \/ LoopExit
    \/ PredictSave
    \/ download_file

Spec == Init /\ [][Next]_vars


----------------------------------------------------------------------------
(* Claims about generate_melody, save_melody and the routes, under Spec *)

seedTokens == Split(form)

\* generate_melody got past the lookup of line 45
Started == pc \notin {"predict", "KeyError"}

\* generate_melody has returned
Returned == pc \in {"return", "responded", "ValueError", "downloaded"}

Decodings(ids) == [i \in 1..Len(ids) |-> Decode(mappings, ids[i])]

NoBoundarySampled == \A i \in 1..Len(sampled) : Decodings(sampled)[i] # BoundaryTok

\* the ids of the start markers followed by the seed tokens
seedIds ==
    LET withStart == start_symbols \o seedTokens
    IN [i \in 1..Len(withStart) |-> mappings[withStart[i]]]

Front(s) == SubSeq(s, 1, Len(s) - 1)

\* the last n elements of h, all of h when it has fewer
LastN(h, n) == IF n >= Len(h) THEN h ELSE SubSeq(h, Len(h) - n + 1, Len(h))

\* C1: for a seed whose tokens are all in the vocabulary map, generate_melody
\* makes at most num_steps predictions and its melody has at most
\* (seed tokens + num_steps) tokens; when "/" is never sampled it returns
\* after exactly num_steps predictions with exactly that many tokens.
C1_StepBudget ==
    Started =>
        /\ step <= num_steps
        /\ Len(sampled) <= num_steps
        /\ Len(melody) <= Len(seedTokens) + num_steps
        /\ (Returned /\ NoBoundarySampled) =>
              /\ Len(sampled) = num_steps
              /\ Len(melody) = Len(seedTokens) + num_steps

C1_Witness ==
    /\ Returned /\ NoBoundarySampled
    /\ num_steps >= 2 /\ Len(sampled) = num_steps
    /\ Len(seedTokens) >= 1

\* C2: a sampled id that decodes to "/" is the last one sampled (the loop is
\* left, no further prediction is made), it is not appended, and no token
\* after the seed prefix of the melody is "/".
C2_StopsAtBoundary ==
    Started =>
        /\ \A i \in 1..Len(sampled) :
              Decodings(sampled)[i] = BoundaryTok =>
                 /\ i = Len(sampled)
                 /\ pc # "loop"
                 /\ Len(melody) = Len(seedTokens) + Len(sampled) - 1
        /\ \A j \in (Len(seedTokens) + 1)..Len(melody) : melody[j] # BoundaryTok

C2_Witness ==
    /\ Returned
    /\ Len(sampled) >= 1 /\ Len(sampled) < num_steps
    /\ Decodings(sampled)[Len(sampled)] = BoundaryTok
    /\ Len(seedTokens) >= 1
    /\ melody = seedTokens

\* what C9 says of the latest prediction: its input is the one-hot encoding
\* of the last max_sequence_length ids of (start markers, seed, every id
\* sampled before it), of exactly max_sequence_length rows when
\* max_sequence_length <= SEQUENCE_LENGTH, and the melody was then the seed
\* tokens followed by the decodings of those sampled ids
ContextAsClaimed ==
    LET history == seedIds \o Front(sampled)
    IN /\ onehot_seed = OneHot(LastN(history, max_sequence_length),
                               Cardinality(DOMAIN mappings))
       /\ max_sequence_length <= SEQUENCE_LENGTH =>
             Len(onehot_seed) = max_sequence_length
       /\ SubSeq(melody, 1, Len(seedTokens) + Len(sampled) - 1)
             = seedTokens \o Decodings(Front(sampled))

C10_RenderNeverRaises ==
    (Started /\ Returned) => (pc # "ValueError" /\ ~rendered.raised)

\* C4: the download that follows a completed submission returns the file
\* that this submission's save_melody wrote.
C4_DownloadIsThisRendering ==
    pc = "downloaded" =>
        /\ downloaded = files[SAVE_PATH]
        /\ downloaded = MidiFile(rendered.stream)

IsOnset(tok) == tok = RestTok \/ IntOf(tok) # ValueError

\* the number of "_" tokens that immediately follow position i
RECURSIVE HoldsAfter(_, _)
HoldsAfter(mel, i) ==
    IF i + 1 <= Len(mel) /\ mel[i + 1] = HoldTok
    THEN 1 + HoldsAfter(mel, i + 1)
    ELSE 0

\* one event per onset token, in order, each lasting for its onset and the
\* holds that follow it
RECURSIVE CoalescedFrom(_, _, _)
CoalescedFrom(mel, step_duration, i) ==
    IF i > Len(mel) THEN <<>>
    ELSE IF mel[i] = HoldTok THEN CoalescedFrom(mel, step_duration, i + 1)
    ELSE LET q == step_duration * (1 + HoldsAfter(mel, i))
         IN <<IF mel[i] = RestTok THEN Rest(q) ELSE Note(IntOf(mel[i]), q)>>
            \o CoalescedFrom(mel, step_duration, i + 1)

Coalesced(mel, step_duration) == CoalescedFrom(mel, step_duration, 1)

OnsetsAndHolds(mel) ==
    /\ mel # <<>>
    /\ IsOnset(mel[1])
    /\ \A i \in 1..Len(mel) : IsOnset(mel[i]) \/ mel[i] = HoldTok

\* C8: for a melody of onsets and holds that starts with an onset,
\* save_melody appends one event per onset, in order, lasting step_duration
\* times (1 + the holds that follow the onset).
C8_OneEventPerOnset ==
    (pc \in {"responded", "ValueError"} /\ OnsetsAndHolds(melody)) =>
        /\ ~rendered.raised
        /\ rendered.stream = Coalesced(melody, STEP_DURATION)


----------------------------------------------------------------------------
(* src/preprocessing.py: encode_song, and save_melody on what it returns *)

\* the default time_step of encode_song, 0.25, in eighths of a quarter
TIME_STEP == 2

\* the time steps of the model: 0.125 and the default
TimeSteps == {1, TIME_STEP}

\* the pitches of the model's scores
ScorePitches == {7, 60}

\* song.flat.notesAndRests: notes and rests with their quarterLength
ScoreEvents ==
    {Note(p, d) : p \in ScorePitches, d \in 1..MaxDur}
        \cup {Rest(d) : d \in 1..MaxDur}

Scores == SeqsUpTo(ScoreEvents, MaxEvents)

\* a slip that rounds the quotient: round(quarterLength / time_step), with
\* Python's rounding of a half to the even neighbour
StepsRounded(quarterLength, ts) ==
    LET q == quarterLength \div ts
        r == quarterLength % ts
    IN IF 2 * r < ts THEN q
       ELSE IF 2 * r > ts THEN q + 1
       ELSE IF q % 2 = 0 THEN q ELSE q + 1

\* steps = int(event.duration.quarterLength / time_step)
Steps(quarterLength, ts) == quarterLength \div ts

\* lines 103-119 for one event, each symbol as line 122's str makes it
EventTokens(event, ts) ==
    LET symbol == IF event.kind = "note" THEN Str(event.pitch) ELSE RestTok
    IN [i \in 1..Steps(event.quarterLength, ts) |->
          IF i = 1 THEN symbol ELSE HoldTok]

RECURSIVE EncodedFrom(_, _, _)
EncodedFrom(score, ts, k) ==
    IF k > Len(score) THEN <<>>
    ELSE EventTokens(score[k], ts) \o EncodedFrom(score, ts, k + 1)

\* encode_song(song, time_step): the tokens joined by single spaces
encode_song(score, ts) == Join(EncodedFrom(score, ts, 1))

EncInit ==
    /\ epc = "score"
    /\ song \in Scores
    /\ time_step \in TimeSteps
    /\ encoded = <<>>
    /\ decoded = NotRendered

\* encode_song, lines 97-124
EncodeSong ==
    /\ epc = "score"
    /\ encoded' = encode_song(song, time_step)
    /\ epc' = "encoded"
    /\ UNCHANGED <<song, time_step, decoded>>
    /\ UNCHANGED <<appVars, mapVars>>

\* save_melody, lines 76-111, on the tokens of the encoded song, with
\* step_duration equal to the time step
RenderEncoded ==
    /\ epc = "encoded"
    /\ decoded' = save_melody(Split(encoded), time_step)
    /\ epc' = "rendered"
    /\ UNCHANGED <<song, time_step, encoded>>
    /\ UNCHANGED <<appVars, mapVars>>

EncNext == EncodeSong \/ RenderEncoded

InitEnc == AppIdle /\ EncInit /\ MapIdle

SpecEnc == InitEnc /\ [][EncNext]_vars

RECURSIVE SumOver(_, _, _)
\* the sum of f(score[j]) for j < k
SumOver(f(_), score, k) ==
    IF k <= 1 THEN 0 ELSE f(score[k - 1]) + SumOver(f, score, k - 1)

\* what C7 says with `steps(event)` tokens for an event: event k's tokens
\* start right after those of the events before it, an onset (the pitch
\* number, or "r") and then holds only, and there are no other tokens
EncodedAs(steps(_)) ==
    LET tokens == Split(encoded)
        offset(k) == SumOver(steps, song, k)
    IN /\ Len(tokens) = offset(Len(song) + 1)
       /\ \A k \in 1..Len(song) :
             steps(song[k]) >= 1 =>
                /\ offset(k) + steps(song[k]) <= Len(tokens)
                /\ tokens[offset(k) + 1] =
                      (IF song[k].kind = "note" THEN Str(song[k].pitch)
                                                ELSE RestTok)
                /\ \A i \in 2..steps(song[k]) : tokens[offset(k) + i] = HoldTok

Truncated(event) == event.quarterLength \div time_step

Rounded(event) == StepsRounded(event.quarterLength, time_step)

\* C7 (as stated): every event gives one onset token followed by
\* round(duration / time_step) - 1 hold tokens, so the stream has the sum of
\* round(duration / time_step) tokens and one onset per event.
C7_Original ==
    epc # "score" =>
        /\ EncodedAs(Rounded)
        /\ \A k \in 1..Len(song) : Rounded(song[k]) >= 1

\* C7 (amended): every event gives int(duration / time_step) tokens, the
\* quotient truncated: one onset and int(duration / time_step) - 1 holds when
\* that is at least 1, and nothing for an event shorter than the time step.
C7_Truncated ==
    epc # "score" => EncodedAs(Truncated)

C7_Witness ==
    /\ epc = "encoded"
    /\ Len(song) = 2
    /\ song[1].kind = "note" /\ song[2].kind = "rest"
    /\ Truncated(song[1]) = 2 /\ Rounded(song[1]) = 2
    /\ Truncated(song[2]) = 1 /\ Rounded(song[2]) = 2

\* C3: for a non-empty score whose durations are positive multiples of the
\* time step, save_melody on the encoded tokens (step_duration = time_step)
\* appends the score's own (pitch-or-rest, duration) events, the last one
\* included.
C3_RoundTrip ==
    (/\ epc = "rendered"
     /\ song # <<>>
     /\ \A k \in 1..Len(song) : song[k].quarterLength % time_step = 0) =>
        /\ ~decoded.raised
        /\ decoded.stream = song


----------------------------------------------------------------------------
(* src/preprocessing.py: create_mapping and convert_songs_to_int *)

\* the characters of the model's corpus strings
CorpusChars == {" ", "6", "_", "/"}

Corpora == SeqsUpTo(CorpusChars, MaxCorpusLen)

NoMapping == [exists |-> FALSE, dict |-> <<>>]
NotConverted == [done |-> FALSE, raised |-> FALSE, ids |-> <<>>]

\* a slip that misses the first token: set(songs[1:])
VocabOfTail(tokens) == IF tokens = <<>> THEN {} ELSE Range(Tail(tokens))

\* set(songs): the distinct tokens
VocabOf(tokens) == Range(tokens)

\* list(set(...)): the set in any order, each element once
ListsOf(S) ==
    {l \in [1..Cardinality(S) -> S] :
        \A i, j \in 1..Cardinality(S) : i # j => l[i] # l[j]}

\* a slip that numbers from one: enumerate(vocab, 1)
EnumerateFromOne(vocab) ==
    [symbol \in Range(vocab) |-> CHOOSE i \in 1..Len(vocab) : vocab[i] = symbol]

\* for i, symbol in enumerate(vocab): mappings[symbol] = i
Enumerate(vocab) ==
    [symbol \in Range(vocab) |->
        (CHOOSE i \in 1..Len(vocab) : vocab[i] = symbol) - 1]

RECURSIVE LookupFrom(_, _, _)
\* lines 210-211 from (1-based) token i on: a KeyError at the first token
\* that is not a key
LookupFrom(dict, tokens, i) ==
    IF i > Len(tokens) THEN [done |-> TRUE, raised |-> FALSE, ids |-> <<>>]
    ELSE IF tokens[i] \notin DOMAIN dict
    THEN [done |-> TRUE, raised |-> TRUE, ids |-> <<>>]
    ELSE LET rest == LookupFrom(dict, tokens, i + 1)
         IN IF rest.raised THEN rest
            ELSE [rest EXCEPT !.ids = <<dict[tokens[i]]>> \o @]

\* Mapping.json before create_mapping runs: missing, or left by a run on
\* an earlier corpus
EarlierCorpus == <<"6", " ", "/">>
EarlierMapping ==
    [exists |-> TRUE, dict |-> (<<"6">> :> 0 @@ <<"/">> :> 1)]

MapInit ==
    /\ songs \in Corpora
    /\ \/ mapping_file = NoMapping /\ mapped_from = <<>>
       \/ mapping_file = EarlierMapping /\ mapped_from = EarlierCorpus
    /\ int_songs = NotConverted

\* create_mapping(songs, MAPPING_PATH), lines 184-197; json.dump and
\* json.load keep a dict of str keys and int values as it is
create_mapping ==
    /\ ~int_songs.done
    /\ \E vocab \in ListsOf(VocabOf(Split(songs))) :
          mapping_file' = [exists |-> TRUE, dict |-> Enumerate(vocab)]
    /\ mapped_from' = songs
    /\ UNCHANGED <<songs, int_songs>>
    /\ UNCHANGED <<appVars, encVars>>

\* convert_songs_to_int(songs), lines 199-213
convert_songs_to_int ==
    /\ mapping_file.exists
    /\ ~int_songs.done
    /\ int_songs' = LookupFrom(mapping_file.dict, Split(songs), 1)
    /\ UNCHANGED <<songs, mapping_file, mapped_from>>
    /\ UNCHANGED <<appVars, encVars>>

MapNext == create_mapping \/ convert_songs_to_int

InitMap == AppIdle /\ EncIdle /\ MapInit

SpecMap == InitMap /\ [][MapNext]_vars

\* C5: after create_mapping built the map from a corpus,
\* convert_songs_to_int on that corpus raises no lookup failure and returns
\* one id per token, in corpus order.
C5_EveryTokenMapped ==
    (mapping_file.exists /\ mapped_from = songs /\ int_songs.done) =>
        /\ ~int_songs.raised
        /\ Len(int_songs.ids) = Len(Split(songs))
        /\ \A i \in 1..Len(Split(songs)) :
              /\ int_songs.ids[i] \in 0..(Cardinality(Range(Split(songs))) - 1)
              /\ Split(songs)[i] = Decode(mapping_file.dict, int_songs.ids[i])

C5_Witness ==
    /\ mapping_file.exists /\ mapped_from = songs /\ int_songs.done
    /\ Len(Split(songs)) = 2
    /\ Split(songs)[1] # Split(songs)[2]
    /\ int_songs.ids = <<1, 0>>

\* C6: the map is a bijection between the distinct tokens of the corpus and
\* 0 .. (vocabulary size - 1): no two tokens share an id, no id is skipped,
\* and every id of the range decodes to exactly one token.
C6_DenseBijection ==
    mapping_file.exists =>
        LET dict == mapping_file.dict
            size == Cardinality(DOMAIN dict)
        IN /\ DOMAIN dict = Range(Split(mapped_from))
           /\ \A a, b \in DOMAIN dict : a # b => dict[a] # dict[b]
           /\ {dict[a] : a \in DOMAIN dict} = 0..(size - 1)
           /\ \A id \in 0..(size - 1) :
                 Cardinality({a \in DOMAIN dict : dict[a] = id}) = 1

C6_Witness ==
    /\ mapping_file.exists
    /\ Cardinality(DOMAIN mapping_file.dict) = 2
    /\ Len(Split(mapped_from)) = 2
    /\ mapping_file.dict[Split(mapped_from)[1]] = 1

============================================================================
